---- MODULE Spec2Model ----
(***************************************************************************)
(* A model of src/bitnames.rs: the BitnameInfo descriptor and the          *)
(* WebRecord resolved through it.                                          *)
(*                                                                         *)
(* A JSON string value is a sequence of one-character strings, so that     *)
(* string comparison and decimal parsing are computed character by         *)
(* character.  Object keys are atomic strings; Utf8 gives their bytes.     *)
(***************************************************************************)
EXTENDS Integers, Sequences, FiniteSets, TLC

VARIABLES
    preserve_order, \* serde_json's "preserve_order" feature of the build
    doc,            \* the document as received: members in text order
    rec,            \* the WebRecord deserialized from doc
    expected,       \* Option<[u8; 32]>: the commitment the caller expects
    anchor,         \* Option<WebRecord>: the record `expected` was computed from
    call,           \* the last method called
    ret,            \* what it returned
    fetches,        \* how many times the document was received
    envelope,       \* the descriptor's input: field name -> raw value
    info,           \* Option<Result<BitnameInfo>>: the decoded descriptor
    icall,          \* the last BitnameInfo method called
    iret            \* what it returned

recvars == <<preserve_order, doc, rec, expected, anchor, call, ret, fetches>>
infovars == <<envelope, info, icall, iret>>
vars == <<preserve_order, doc, rec, expected, anchor, call, ret, fetches,
          envelope, info, icall, iret>>

(***************************************************************************)
(* Bounds                                                                  *)
(***************************************************************************)
MaxFetches == 2

(***************************************************************************)
(* Option and Result                                                       *)
(***************************************************************************)
None == <<>>
Some(x) == <<x>>
IsSome(o) == Len(o) = 1
Unwrap(o) == o[1]

Ok(x) == [ok |-> TRUE, val |-> x]
Err(e) == [ok |-> FALSE, val |-> e]

(***************************************************************************)
(* serde_json::Value                                                       *)
(***************************************************************************)
JNull == [t |-> "null", v |-> <<>>]
JBool(b) == [t |-> "bool", v |-> b]
JNumber(n) == [t |-> "number", v |-> n]
JString(s) == [t |-> "string", v |-> s]
JArray(a) == [t |-> "array", v |-> a]
JObject(m) == [t |-> "object", v |-> m]

\* JsonValue::as_str
as_str(val) == IF val.t = "string" THEN Some(val.v) ELSE None

\* JsonValue::as_object
as_object(val) == IF val.t = "object" THEN Some(val.v) ELSE None

(***************************************************************************)
(* Keys and their order                                                    *)
(***************************************************************************)
Utf8(k) ==
    CASE k = "alice" -> <<97, 108, 105, 99, 101>>
      [] k = "fee" -> <<102, 101, 101>>
      [] k = "introductions" ->
            <<105, 110, 116, 114, 111, 100, 117, 99, 116, 105, 111, 110, 115>>
      [] k = "telegram" -> <<116, 101, 108, 101, 103, 114, 97, 109>>
      [] k = "version" -> <<118, 101, 114, 115, 105, 111, 110>>

Min(a, b) == IF a < b THEN a ELSE b

\* lexicographic comparison of two byte strings
BytesLess(a, b) ==
    LET n == Min(Len(a), Len(b))
        D == {i \in 1..n : a[i] # b[i]}
    IN  IF D = {} THEN Len(a) < Len(b)
        ELSE LET i == CHOOSE i \in D : \A j \in D : i <= j
             IN  a[i] < b[i]

KeyLess(j, k) == BytesLess(Utf8(j), Utf8(k))

(***************************************************************************)
(* serde_json::Map<String, Value>: a sequence of <<key, value>> entries in *)
(* the order the map iterates them                                         *)
(***************************************************************************)
MapIndex(m, k) == {i \in 1..Len(m) : m[i][1] = k}

\* Map::get
MapGet(m, k) ==
    IF MapIndex(m, k) = {} THEN None
    ELSE Some(m[CHOOSE i \in MapIndex(m, k) : TRUE][2])

\* Map::insert: an existing key keeps its place and takes the new value; a
\* new key goes last (preserve_order, an IndexMap) or in key order (a BTreeMap)
MapInsert(m, k, val, po) ==
    IF MapIndex(m, k) # {}
    THEN [i \in 1..Len(m) |-> IF m[i][1] = k THEN <<k, val>> ELSE m[i]]
    ELSE IF po THEN Append(m, <<k, val>>)
    ELSE LET before == SelectSeq(m, LAMBDA e : KeyLess(e[1], k))
             after == SelectSeq(m, LAMBDA e : KeyLess(k, e[1]))
         IN  before \o <<(<<k, val>>)>> \o after

RECURSIVE FromJson(_, _)
RECURSIVE MapFromMembers(_, _)
\* Deserialize for Map: insert the members in text order
MapFromMembers(members, po) ==
    IF members = <<>> THEN <<>>
    ELSE LET n == Len(members)
         IN  MapInsert(MapFromMembers(SubSeq(members, 1, n - 1), po),
                       members[n][1], FromJson(members[n][2], po), po)

\* Deserialize for Value
FromJson(raw, po) ==
    CASE raw.t = "object" -> JObject(MapFromMembers(raw.v, po))
      [] raw.t = "array" -> JArray([i \in 1..Len(raw.v) |-> FromJson(raw.v[i], po)])
      [] OTHER -> raw

\* #[derive(Deserialize)] struct WebRecord(JsonMap<String, JsonValue>)
WebRecord(members, po) == MapFromMembers(members, po)

(***************************************************************************)
(* serde_jcs::to_vec: the canonical JSON text                              *)
(***************************************************************************)
RECURSIVE Concat(_)
\* the characters of a string, written out
Concat(chars) ==
    IF chars = <<>> THEN "" ELSE chars[1] \o Concat(Tail(chars))

\* the entries of an object left in the order the map iterates them
UnsortedEntries(m) == m

RECURSIVE SortedEntries(_)
\* the entries of an object in the order of their keys: the formatter
\* collects them in a BTreeMap before it writes the object
SortedEntries(m) ==
    IF m = <<>> THEN <<>>
    ELSE LET n == Len(m)
         IN  MapInsert(SortedEntries(SubSeq(m, 1, n - 1)), m[n][1], m[n][2], FALSE)

RECURSIVE JcsValue(_)
RECURSIVE JcsMembers(_)
RECURSIVE JcsItems(_)
\* the members of an object, comma-separated, in the order given
JcsMembers(m) ==
    IF m = <<>> THEN ""
    ELSE "\"" \o m[1][1] \o "\":" \o JcsValue(m[1][2])
         \o (IF Len(m) > 1 THEN "," ELSE "") \o JcsMembers(Tail(m))

\* the items of an array, comma-separated
JcsItems(a) ==
    IF a = <<>> THEN ""
    ELSE JcsValue(a[1]) \o (IF Len(a) > 1 THEN "," ELSE "") \o JcsItems(Tail(a))

JcsValue(val) ==
    CASE val.t = "null" -> "null"
      [] val.t = "bool" -> IF val.v THEN "true" ELSE "false"
      [] val.t = "number" -> ToString(val.v)
      [] val.t = "string" -> "\"" \o Concat(val.v) \o "\""
      [] val.t = "array" -> "[" \o JcsItems(val.v) \o "]"
      [] val.t = "object" -> "{" \o JcsMembers(SortedEntries(val.v)) \o "}"

\* serde_jcs::to_vec(&self.0)
to_vec(map) == JcsValue(JObject(map))

\* SHA-256, taken to be injective: the digest stands for the bytes hashed
Sha256(bytes) == [sha256 |-> bytes]

(***************************************************************************)
(* rust_decimal::Decimal::from_str, on an optional sign, digits and at     *)
(* most one point                                                          *)
(***************************************************************************)
Digits == <<"0", "1", "2", "3", "4", "5", "6", "7", "8", "9">>
IsDigit(c) == \E d \in 1..10 : Digits[d] = c
DigitVal(c) == (CHOOSE d \in 1..10 : Digits[d] = c) - 1

RECURSIVE Mantissa(_)
\* the number the digits of `chars` spell, the point skipped
Mantissa(chars) ==
    IF chars = <<>> THEN 0
    ELSE LET n == Len(chars)
             front == Mantissa(SubSeq(chars, 1, n - 1))
         IN  IF chars[n] = "." THEN front ELSE 10 * front + DigitVal(chars[n])

Decimal_from_str(s) ==
    LET signed == s # <<>> /\ s[1] \in {"-", "+"}
        body == IF signed THEN Tail(s) ELSE s
        points == {i \in 1..Len(body) : body[i] = "."}
        digits == {i \in 1..Len(body) : IsDigit(body[i])}
    IN  IF /\ digits # {}
           /\ Cardinality(points) <= 1
           /\ digits \cup points = 1..Len(body)
        THEN Ok([negative |-> signed /\ s[1] = "-",
                 mantissa |-> Mantissa(body),
                 scale |-> IF points = {} THEN 0
                           ELSE Len(body) - (CHOOSE i \in points : TRUE)])
        ELSE Err("Invalid decimal")

\* Result::ok
ok(r) == IF r.ok THEN Some(r.val) ELSE None

(***************************************************************************)
(* impl WebRecord                                                          *)
(***************************************************************************)
VERSION == <<"0", ".", "0", ".", "1">>

UnsupportedVersion == "version number missing or unsupported"
CommitmentMismatch == "commitment does not match expected commitment"

\* whether `prefix` begins `chars` (str::starts_with)
StartsWith(chars, prefix) ==
    Len(chars) >= Len(prefix) /\ SubSeq(chars, 1, Len(prefix)) = prefix

\* version_ok accepting any version string that begins with the literal
version_ok_prefix(self) ==
    LET got == MapGet(self, "version")
    IN  IF IsSome(got)
        THEN IF Unwrap(got).t = "string" THEN StartsWith(Unwrap(got).v, VERSION)
             ELSE FALSE
        ELSE FALSE

version_ok(self) ==
    LET got == MapGet(self, "version")
    IN  IF IsSome(got)
        THEN IF Unwrap(got).t = "string" THEN Unwrap(got).v = VERSION ELSE FALSE
        ELSE FALSE

commitment(self) == Sha256(to_vec(self))

\* commitment_ok with the comparison the wrong way round
commitment_ok_negated(self, exp) == commitment(self) # exp

commitment_ok(self, exp) == commitment(self) = exp

\* validate comparing the commitment before it looks at the version
validate_commitment_first(self, expected_commitment) ==
    IF IsSome(expected_commitment) /\ ~commitment_ok(self, Unwrap(expected_commitment))
    THEN Err(CommitmentMismatch)
    ELSE IF ~version_ok(self) THEN Err(UnsupportedVersion)
    ELSE Ok(<<>>)

\* validate never comparing the commitment
validate_version_only(self, expected_commitment) ==
    IF ~version_ok(self) THEN Err(UnsupportedVersion) ELSE Ok(<<>>)

\* validate taking a missing expected commitment for a mismatch
validate_commitment_required(self, expected_commitment) ==
    IF ~version_ok(self) THEN Err(UnsupportedVersion)
    ELSE IF IsSome(expected_commitment)
         THEN IF ~commitment_ok(self, Unwrap(expected_commitment))
              THEN Err(CommitmentMismatch)
              ELSE Ok(<<>>)
         ELSE Err(CommitmentMismatch)

validate(self, expected_commitment) ==
    IF ~version_ok(self) THEN Err(UnsupportedVersion)
    ELSE IF IsSome(expected_commitment)
         THEN IF ~commitment_ok(self, Unwrap(expected_commitment))
              THEN Err(CommitmentMismatch)
              ELSE Ok(<<>>)
         ELSE Ok(<<>>)

telegram(self) ==
    LET got == MapGet(self, "telegram")
    IN  IF IsSome(got) THEN as_str(Unwrap(got)) ELSE None

introductions(self) ==
    LET got == MapGet(self, "introductions")
    IN  IF IsSome(got) THEN as_object(Unwrap(got)) ELSE None

\* the fee read from "fee" first and from "telegram" second
introductions_telegram_fee_generic_first(self) ==
    LET intro == introductions(self)
    IN  IF ~IsSome(intro) THEN None
        ELSE LET generic == MapGet(Unwrap(intro), "fee")
                 found == IF IsSome(generic) THEN generic
                          ELSE MapGet(Unwrap(intro), "telegram")
                 fee == IF IsSome(found) THEN as_str(Unwrap(found)) ELSE None
             IN  IF IsSome(fee) THEN ok(Decimal_from_str(Unwrap(fee))) ELSE None

\* the fee of one entry: a string that parses as a decimal
EntryFee(entry) ==
    LET fee == IF IsSome(entry) THEN as_str(Unwrap(entry)) ELSE None
    IN  IF IsSome(fee) THEN ok(Decimal_from_str(Unwrap(fee))) ELSE None

\* the fee falling back to "fee" whenever "telegram" gives no decimal
introductions_telegram_fee_value_fallback(self) ==
    LET intro == introductions(self)
    IN  IF ~IsSome(intro) THEN None
        ELSE LET specific == EntryFee(MapGet(Unwrap(intro), "telegram"))
             IN  IF IsSome(specific) THEN specific
                 ELSE EntryFee(MapGet(Unwrap(intro), "fee"))

introductions_telegram_fee(self) ==
    LET intro == introductions(self)
    IN  IF ~IsSome(intro) THEN None
        ELSE LET specific == MapGet(Unwrap(intro), "telegram")
                 found == IF IsSome(specific) THEN specific
                          ELSE MapGet(Unwrap(intro), "fee")
                 fee == IF IsSome(found) THEN as_str(Unwrap(found)) ELSE None
             IN  IF IsSome(fee) THEN ok(Decimal_from_str(Unwrap(fee))) ELSE None

(***************************************************************************)
(* Decoding the descriptor's fields                                        *)
(***************************************************************************)
LowerHex == <<"0", "1", "2", "3", "4", "5", "6", "7", "8", "9",
              "a", "b", "c", "d", "e", "f">>
UpperHex == <<"0", "1", "2", "3", "4", "5", "6", "7", "8", "9",
              "A", "B", "C", "D", "E", "F">>
IsHexDigit(c) == \E d \in 1..16 : LowerHex[d] = c \/ UpperHex[d] = c
HexVal(c) == (CHOOSE d \in 1..16 : LowerHex[d] = c \/ UpperHex[d] = c) - 1

\* hex::decode: two hexadecimal digits a byte
HexDecode(chars) ==
    IF Len(chars) % 2 # 0 THEN Err("odd number of digits")
    ELSE IF \E i \in 1..Len(chars) : ~IsHexDigit(chars[i])
    THEN Err("invalid character")
    ELSE Ok([i \in 1..(Len(chars) \div 2) |->
                16 * HexVal(chars[2 * i - 1]) + HexVal(chars[2 * i])])

COMMITMENT_LEN == 32

\* serde_with::hex::Hex into [u8; 32]
HexArray(raw) ==
    IF raw.t # "string" THEN Err("invalid type")
    ELSE LET bytes == HexDecode(raw.v)
         IN  IF ~bytes.ok THEN bytes
             ELSE IF Len(bytes.val) # COMMITMENT_LEN THEN Err("invalid length")
             ELSE bytes

RECURSIVE Split(_, _)
\* the pieces of `chars` between the separators
Split(chars, sep) ==
    IF \A i \in 1..Len(chars) : chars[i] # sep THEN <<chars>>
    ELSE LET i == CHOOSE i \in 1..Len(chars) :
                    chars[i] = sep /\ \A j \in 1..(i - 1) : chars[j] # sep
         IN  <<SubSeq(chars, 1, i - 1)>> \o Split(SubSeq(chars, i + 1, Len(chars)), sep)

RECURSIVE Radix(_, _)
\* the number `chars` spell in the given base
Radix(chars, base) ==
    IF chars = <<>> THEN 0
    ELSE LET n == Len(chars)
         IN  base * Radix(SubSeq(chars, 1, n - 1), base) + HexVal(chars[n])

\* one decimal octet: one to three digits, no leading zero, at most 255
IsOctet(part) ==
    /\ Len(part) \in 1..3
    /\ \A i \in 1..Len(part) : IsDigit(part[i])
    /\ Len(part) > 1 => part[1] # "0"
    /\ Radix(part, 10) <= 255

\* Ipv4Addr::from_str
Ipv4Addr_from_str(chars) ==
    LET parts == Split(chars, ".")
    IN  IF Len(parts) = 4 /\ \A i \in 1..4 : IsOctet(parts[i])
        THEN Ok([i \in 1..4 |-> Radix(parts[i], 10)])
        ELSE Err("invalid IPv4 address syntax")

\* one group of an IPv6 address: one to four hexadecimal digits
IsGroup(part) ==
    /\ Len(part) \in 1..4
    /\ \A i \in 1..Len(part) : IsHexDigit(part[i])

Groups(chars) == IF chars = <<>> THEN <<>> ELSE Split(chars, ":")

\* Ipv6Addr::from_str, on addresses without an embedded IPv4 tail
Ipv6Addr_from_str(chars) ==
    LET gaps == {i \in 1..(Len(chars) - 1) : chars[i] = ":" /\ chars[i + 1] = ":"}
    IN  IF gaps = {}
        THEN LET parts == Split(chars, ":")
             IN  IF Len(parts) = 8 /\ \A i \in 1..8 : IsGroup(parts[i])
                 THEN Ok([i \in 1..8 |-> Radix(parts[i], 16)])
                 ELSE Err("invalid IPv6 address syntax")
        ELSE IF Cardinality(gaps) > 1 THEN Err("invalid IPv6 address syntax")
        ELSE LET g == CHOOSE i \in gaps : TRUE
                 head == Groups(SubSeq(chars, 1, g - 1))
                 tail == Groups(SubSeq(chars, g + 2, Len(chars)))
             IN  IF /\ Len(head) + Len(tail) <= 7
                    /\ \A i \in 1..Len(head) : IsGroup(head[i])
                    /\ \A i \in 1..Len(tail) : IsGroup(tail[i])
                 THEN Ok([i \in 1..8 |->
                            IF i <= Len(head) THEN Radix(head[i], 16)
                            ELSE IF i > 8 - Len(tail)
                            THEN Radix(tail[i - (8 - Len(tail))], 16)
                            ELSE 0])
                 ELSE Err("invalid IPv6 address syntax")

\* DisplayFromStr into Ipv4Addr
DisplayFromStr4(raw) ==
    IF raw.t # "string" THEN Err("invalid type") ELSE Ipv4Addr_from_str(raw.v)

\* DisplayFromStr into Ipv6Addr
DisplayFromStr6(raw) ==
    IF raw.t # "string" THEN Err("invalid type") ELSE Ipv6Addr_from_str(raw.v)

\* a field decoded as Option<_>, an undecodable value taken for None
OptionAsLenient(field, decoded) ==
    IF ~IsSome(field) THEN Ok(None)
    ELSE IF Unwrap(field).t = "null" THEN Ok(None)
    ELSE IF decoded.ok THEN Ok(Some(decoded.val))
    ELSE Ok(None)

\* a field decoded as Option<_>: a missing member and null are None, and any
\* other value must decode; `decoded` is what the inner adapter makes of it
OptionAs(field, decoded) ==
    IF ~IsSome(field) THEN Ok(None)
    ELSE IF Unwrap(field).t = "null" THEN Ok(None)
    ELSE IF decoded.ok THEN Ok(Some(decoded.val))
    ELSE decoded

\* #[derive(Deserialize)] struct BitnameInfo
BitnameInfo(env) ==
    LET c == OptionAs(env.commitment,
                      IF IsSome(env.commitment) THEN HexArray(Unwrap(env.commitment))
                      ELSE Ok(None))
        a4 == OptionAs(env.ip4_addr,
                       IF IsSome(env.ip4_addr) THEN DisplayFromStr4(Unwrap(env.ip4_addr))
                       ELSE Ok(None))
        a6 == OptionAs(env.ip6_addr,
                       IF IsSome(env.ip6_addr) THEN DisplayFromStr6(Unwrap(env.ip6_addr))
                       ELSE Ok(None))
    IN  IF ~c.ok THEN c
        ELSE IF ~a4.ok THEN a4
        ELSE IF ~a6.ok THEN a6
        ELSE Ok([commitment |-> c.val, ip4_addr |-> a4.val, ip6_addr |-> a6.val])

\* IpAddr::from
V4(addr) == [family |-> "V4", addr |-> addr]
V6(addr) == [family |-> "V6", addr |-> addr]

\* the same, the IPv4 address tried first
ip_addr_v4_first(self) ==
    IF IsSome(self.ip4_addr) THEN Some(V4(Unwrap(self.ip4_addr)))
    ELSE IF IsSome(self.ip6_addr) THEN Some(V6(Unwrap(self.ip6_addr)))
    ELSE None

\* BitnameInfo::ip_addr
ip_addr(self) ==
    IF IsSome(self.ip6_addr) THEN Some(V6(Unwrap(self.ip6_addr)))
    ELSE IF IsSome(self.ip4_addr) THEN Some(V4(Unwrap(self.ip4_addr)))
    ELSE None

(***************************************************************************)
(* The documents received                                                  *)
(***************************************************************************)
V002 == <<"0", ".", "0", ".", "2">>
V0010 == VERSION \o <<"0">>
V00 == <<"0", ".", "0">>
Alice == <<"a", "l", "i", "c", "e">>
Bob == <<"b", "o", "b">>
Fee150 == <<"1", ".", "5", "0">>
Fee200 == <<"2", ".", "0", "0">>
Fee999 == <<"9", ".", "9", "9">>
NotDecimal == <<"a", "b", "c">>
TwoPoints == <<"1", ".", "5", ".", "0">>

\* what a document may hold under "version", None for no such member
VersionOpts ==
    << None, Some(JNull), Some(JBool(TRUE)), Some(JNumber(0)),
       Some(JArray(<<JString(VERSION)>>)),
       Some(JObject(<< <<"version", JString(VERSION)>> >>)),
       Some(JString(VERSION)), Some(JString(V002)), Some(JString(V0010)),
       Some(JString(V00)) >>

TelegramOpts == << None, Some(JString(Alice)), Some(JNumber(7)) >>

IntroductionsOpts ==
    << None, Some(JString(Fee200)), Some(JObject(<<>>)),
       Some(JObject(<< <<"telegram", JString(Fee150)>>, <<"fee", JString(Fee200)>> >>)),
       Some(JObject(<< <<"fee", JString(Fee200)>>, <<"alice", JString(Fee150)>> >>)),
       Some(JObject(<< <<"telegram", JNumber(1)>>, <<"fee", JString(Fee200)>> >>)),
       Some(JObject(<< <<"telegram", JString(NotDecimal)>>, <<"fee", JString(Fee200)>> >>)),
       Some(JObject(<< <<"telegram", JString(TwoPoints)>>, <<"fee", JString(Fee200)>> >>)),
       Some(JObject(<< <<"fee", JString(NotDecimal)>> >>)),
       Some(JObject(<< <<"fee", JNumber(2)>> >>)),
       Some(JObject(<< <<"telegram", JString(Fee150)>> >>)) >>

Member(k, opt) == IF IsSome(opt) THEN << <<k, Unwrap(opt)>> >> ELSE <<>>

Document(v, t, i) ==
    Member("version", VersionOpts[v]) \o Member("telegram", TelegramOpts[t])
        \o Member("introductions", IntroductionsOpts[i])

\* `s` with its entries i and i + 1 exchanged
Swap(s, i) ==
    [j \in 1..Len(s) |-> IF j = i THEN s[i + 1] ELSE IF j = i + 1 THEN s[i] ELSE s[j]]

\* what a tampered document holds under key k
Tampered(k) ==
    CASE k = "version" -> {JString(VERSION), JString(V002)}
      [] k = "telegram" -> {JString(Bob)}
      [] k = "introductions" -> {JObject(<< <<"fee", JString(Fee999)>> >>)}

(***************************************************************************)
(* The record's life: received, queried, its commitment anchored, and      *)
(* received again                                                          *)
(***************************************************************************)
InitRecord ==
    /\ preserve_order \in BOOLEAN
    /\ \E v \in 1..Len(VersionOpts), t \in 1..Len(TelegramOpts),
          i \in 1..Len(IntroductionsOpts) :
            /\ doc = Document(v, t, i)
            /\ rec = WebRecord(Document(v, t, i), preserve_order)
    /\ expected = None
    /\ anchor = None
    /\ call = "none"
    /\ ret = <<>>
    /\ fetches = 1

NoInfo ==
    /\ envelope = <<>>
    /\ info = None
    /\ icall = "none"
    /\ iret = <<>>

Returns(method, value) ==
    /\ call' = method
    /\ ret' = value
    /\ UNCHANGED <<preserve_order, doc, rec, expected, anchor, fetches>>
    /\ UNCHANGED infovars

CallVersionOk == Returns("version_ok", version_ok(rec))

CallCommitment == Returns("commitment", commitment(rec))

CallCommitmentOk ==
    /\ IsSome(expected)
    /\ Returns("commitment_ok", commitment_ok(rec, Unwrap(expected)))

CallValidate == Returns("validate", validate(rec, expected))

CallTelegram == Returns("telegram", telegram(rec))

CallIntroductions == Returns("introductions", introductions(rec))

CallIntroductionsTelegramFee ==
    Returns("introductions_telegram_fee", introductions_telegram_fee(rec))

\* the commitment just computed becomes the one the caller expects
Anchor ==
    /\ call = "commitment"
    /\ fetches = 1
    /\ expected = None
    /\ expected' = Some(ret)
    /\ anchor' = Some(doc)
    /\ UNCHANGED <<preserve_order, doc, rec, call, ret, fetches>>
    /\ UNCHANGED infovars

Fetch(members) ==
    /\ fetches < MaxFetches
    /\ fetches' = fetches + 1
    /\ doc' = members
    /\ rec' = WebRecord(members, preserve_order)
    /\ call' = "none"
    /\ ret' = <<>>
    /\ UNCHANGED <<preserve_order, expected, anchor>>
    /\ UNCHANGED infovars

\* the same document with two neighbouring members the other way round
FetchReordered ==
    \E i \in 1..(Len(doc) - 1) : Fetch(Swap(doc, i))

\* the same document with two members of a nested object the other way round
FetchReorderedNested ==
    \E i \in 1..Len(doc) :
        /\ doc[i][2].t = "object"
        /\ \E j \in 1..(Len(doc[i][2].v) - 1) :
              Fetch([doc EXCEPT ![i] = <<doc[i][1], JObject(Swap(doc[i][2].v, j))>>])

\* a document with one member's value replaced
FetchTampered ==
    \E i \in 1..Len(doc) :
        \E val \in Tampered(doc[i][1]) :
            /\ val # doc[i][2]
            /\ Fetch([doc EXCEPT ![i] = <<doc[i][1], val>>])

Next ==
    \/ CallVersionOk
    \/ CallCommitment
    \/ CallCommitmentOk
    \/ CallValidate
    \/ CallTelegram
    \/ CallIntroductions
    \/ CallIntroductionsTelegramFee
    \/ Anchor
    \/ FetchReordered
    \/ FetchReorderedNested
    \/ FetchTampered

Init == InitRecord /\ NoInfo

Spec == Init /\ [][Next]_vars

(***************************************************************************)
(* The descriptor's life: its envelope received, decoded, and its address  *)
(* resolved                                                                *)
(***************************************************************************)
\* n characters, `chars` over and over
Repeat(chars, n) == [i \in 1..n |-> chars[((i - 1) % Len(chars)) + 1]]

Hex32 == Repeat(<<"a", "b", "0", "7">>, 64)
Hex32Upper == Repeat(<<"C", "4", "f", "E">>, 64)
Hex31 == Repeat(<<"a", "b", "0", "7">>, 62)
Hex33 == Repeat(<<"a", "b", "0", "7">>, 66)
HexOdd == Repeat(<<"a", "b", "0", "7">>, 63)
HexBad == Repeat(<<"a", "b", "0", "7">>, 63) \o <<"g">>

WellFormedCommitments == {Hex32, Hex32Upper}
MalformedCommitments == {Hex31, Hex33, HexOdd, HexBad}

WellFormedIp4 == { <<"1", "9", "2", ".", "0", ".", "2", ".", "2", "5", "5">>,
                   <<"1", "0", ".", "0", ".", "0", ".", "1">> }
MalformedIp4 == { <<"9", "9", "9", ".", "1", ".", "1", ".", "1">>,
                  <<"1", ".", "2", ".", "3">>,
                  <<"1", ".", "2", ".", "3", ".", "x">> }

WellFormedIp6 == { <<":", ":", "1">>,
                   <<"2", "0", "0", "1", ":", "d", "b", "8", ":", ":", "A">>,
                   <<"1", ":", "2", ":", "3", ":", "4", ":", "5", ":", "6", ":", "7", ":", "8">> }
MalformedIp6 == { <<":", ":", "z", "z">>,
                  <<"1", ":", ":", "2", ":", ":", "3">>,
                  <<"1", ":", "2", ":", "3">>,
                  <<"1", "2", "3", "4", "5", ":", ":">> }

\* what the envelope may hold under a field: nothing, null, or a string
Fields(strings) == {None, Some(JNull)} \cup {Some(JString(chars)) : chars \in strings}

InitInfo ==
    /\ envelope \in [commitment : Fields(WellFormedCommitments \cup MalformedCommitments),
                     ip4_addr : Fields(WellFormedIp4 \cup MalformedIp4),
                     ip6_addr : Fields(WellFormedIp6 \cup MalformedIp6)]
    /\ info = None
    /\ icall = "none"
    /\ iret = <<>>

NoRecord ==
    /\ preserve_order = FALSE
    /\ doc = <<>>
    /\ rec = <<>>
    /\ expected = None
    /\ anchor = None
    /\ call = "none"
    /\ ret = <<>>
    /\ fetches = 1

\* the envelope is deserialized
Deserialize ==
    /\ info = None
    /\ info' = Some(BitnameInfo(envelope))
    /\ UNCHANGED <<envelope, icall, iret>>
    /\ UNCHANGED recvars

CallIpAddr ==
    /\ IsSome(info)
    /\ Unwrap(info).ok
    /\ icall' = "ip_addr"
    /\ iret' = ip_addr(Unwrap(info).val)
    /\ UNCHANGED <<envelope, info>>
    /\ UNCHANGED recvars

NextInfo ==
    \/ Deserialize
    \/ CallIpAddr

InitDescriptor == InitInfo /\ NoRecord

SpecInfo == InitDescriptor /\ [][NextInfo]_vars

(***************************************************************************)
(* What the claims speak of, read off the document as received             *)
(***************************************************************************)
\* the document holds "version" as exactly the string "0.0.1"
HasSupportedVersion(members) ==
    \E i \in 1..Len(members) :
        /\ members[i][1] = "version"
        /\ members[i][2].t = "string"
        /\ members[i][2].v = VERSION

\* the document holds "version" as a string
HasVersionString(members, chars) ==
    \E i \in 1..Len(members) :
        /\ members[i][1] = "version"
        /\ members[i][2].t = "string"
        /\ members[i][2].v = chars

Keys(members) == {members[i][1] : i \in 1..Len(members)}
ValueOf(members, k) == members[CHOOSE i \in 1..Len(members) : members[i][1] = k][2]

RECURSIVE SameJson(_, _)
\* two values that hold the same mapping, whatever the order of their members
SameJson(x, y) ==
    /\ x.t = y.t
    /\ CASE x.t = "object" ->
              /\ Keys(x.v) = Keys(y.v)
              /\ \A k \in Keys(x.v) : SameJson(ValueOf(x.v, k), ValueOf(y.v, k))
         [] x.t = "array" ->
              /\ Len(x.v) = Len(y.v)
              /\ \A i \in 1..Len(x.v) : SameJson(x.v[i], y.v[i])
         [] OTHER -> x.v = y.v

SameDocument(a, b) == SameJson(JObject(a), JObject(b))

\* the map holds the string `chars` under key k
HoldsString(m, k, chars) ==
    /\ IsSome(MapGet(m, k))
    /\ Unwrap(MapGet(m, k)).t = "string"
    /\ Unwrap(MapGet(m, k)).v = chars

\* the map holds, under key k, something that is no decimal string
HoldsNoDecimal(m, k) ==
    /\ IsSome(MapGet(m, k))
    /\ \/ Unwrap(MapGet(m, k)).t # "string"
       \/ Unwrap(MapGet(m, k)).v \in {NotDecimal, TwoPoints}

Dec(mantissa, scale) == [negative |-> FALSE, mantissa |-> mantissa, scale |-> scale]

Failed(result, message) == ~result.ok /\ result.val = message

(***************************************************************************)
(* The claims about WebRecord, under Spec                                  *)
(***************************************************************************)
\* C1: validate checks the version first: on a record whose version is not
\* ok it fails with UnsupportedVersion, never with CommitmentMismatch,
\* whether the expected commitment is absent, the record's own or another.
C1_VersionCheckedFirst ==
    (call = "validate" /\ ~version_ok(rec))
        => (Failed(ret, UnsupportedVersion) /\ ~Failed(ret, CommitmentMismatch))

\* a record of unsupported version validated against another record's commitment
C1_Witness ==
    /\ call = "validate"
    /\ ~version_ok(rec)
    /\ IsSome(expected)
    /\ Unwrap(expected) # commitment(rec)
    /\ Failed(ret, UnsupportedVersion)

\* C2: on a record whose version is ok, validate against a commitment other
\* than the record's own fails with CommitmentMismatch, an error distinct
\* from UnsupportedVersion.
C2_MismatchFails ==
    (/\ call = "validate"
     /\ version_ok(rec)
     /\ IsSome(expected)
     /\ Unwrap(expected) # commitment(rec))
        => (Failed(ret, CommitmentMismatch) /\ CommitmentMismatch # UnsupportedVersion)

\* a record of supported version validated against another record's commitment
C2_Witness ==
    /\ call = "validate"
    /\ version_ok(rec)
    /\ IsSome(expected)
    /\ Unwrap(expected) # commitment(rec)
    /\ Failed(ret, CommitmentMismatch)

\* C3: with no expected commitment, validate succeeds exactly when the
\* document holds "version" as the string "0.0.1"; nothing else in the
\* document changes the outcome.
C3_ValidateNone ==
    (call = "validate" /\ expected = None) => (ret.ok <=> HasSupportedVersion(doc))

\* a record with a telegram entry that is no string and no introductions
\* validates without an expected commitment
C3_Witness ==
    /\ call = "validate"
    /\ expected = None
    /\ ret.ok
    /\ IsSome(MapGet(rec, "telegram"))
    /\ telegram(rec) = None
    /\ introductions(rec) = None

\* C4: version_ok is true exactly when the document holds "version" as the
\* string "0.0.1": false without the member, for null, a boolean, a number,
\* an array, an object and for any other string.
C4_VersionExact ==
    call = "version_ok" => (ret <=> HasSupportedVersion(doc))

\* version_ok refused a version string that begins with "0.0.1"
C4_Witness ==
    /\ call = "version_ok"
    /\ HasVersionString(doc, V0010)
    /\ ret = FALSE

\* C5: the commitment does not depend on the order of the members: a
\* document received again with the same mapping, at the top and in nested
\* objects, has the commitment computed the first time.
C5_OrderIndependent ==
    (/\ call = "commitment"
     /\ IsSome(anchor)
     /\ SameDocument(doc, Unwrap(anchor)))
        => ret = Unwrap(expected)

\* the commitment computed again on a record whose map iterates its members
\* in another order
C5_Witness ==
    /\ call = "commitment"
    /\ IsSome(anchor)
    /\ SameDocument(doc, Unwrap(anchor))
    /\ rec # WebRecord(Unwrap(anchor), preserve_order)
    /\ ret = Unwrap(expected)

\* C6: commitment_ok against the commitment of D is true of D and false of
\* every record whose canonical bytes differ from those of D: it is true
\* exactly when the expected value is the digest of the record's bytes.
C6_CommitmentOk ==
    (call = "commitment_ok" /\ IsSome(anchor))
        => LET D == WebRecord(Unwrap(anchor), preserve_order)
           IN  /\ Unwrap(expected) = commitment(D)
               /\ to_vec(rec) = to_vec(D) => ret = TRUE
               /\ to_vec(rec) # to_vec(D) => ret = FALSE
               /\ ret <=> (Unwrap(expected) = Sha256(to_vec(rec)))

\* commitment_ok refused a record other than the one the commitment is of
C6_Witness ==
    /\ call = "commitment_ok"
    /\ IsSome(anchor)
    /\ to_vec(rec) # to_vec(WebRecord(Unwrap(anchor), preserve_order))
    /\ ret = FALSE

\* C8 as stated: the fee is looked up under the record's handle first and
\* under "fee" second: with introductions {"alice": "1.50", "fee": "2.00"}
\* the fee for handle alice is 1.50 and for handle bob 2.00; with {} none.
C8_HandleKeyFirst ==
    (call = "introductions_telegram_fee" /\ IsSome(introductions(rec)))
        => LET m == Unwrap(introductions(rec))
           IN  /\ (/\ Keys(m) = {"alice", "fee"}
                   /\ HoldsString(m, "alice", Fee150)
                   /\ HoldsString(m, "fee", Fee200)
                   /\ telegram(rec) = Some(Alice)) => ret = Some(Dec(150, 2))
               /\ (/\ Keys(m) = {"alice", "fee"}
                   /\ HoldsString(m, "alice", Fee150)
                   /\ HoldsString(m, "fee", Fee200)
                   /\ telegram(rec) = Some(Bob)) => ret = Some(Dec(200, 2))
               /\ m = <<>> => ret = None

\* C8 as amended: the fee is looked up under the fixed key "telegram" first
\* and under "fee" second, and the record's handle plays no part: with
\* "telegram": "1.50" the fee is 1.50, with no "telegram" and "fee": "2.00"
\* it is 2.00 (an "alice" entry is not read), and with {} there is none.
C8_TelegramKeyFirst ==
    (call = "introductions_telegram_fee" /\ IsSome(introductions(rec)))
        => LET m == Unwrap(introductions(rec))
           IN  /\ HoldsString(m, "telegram", Fee150) => ret = Some(Dec(150, 2))
               /\ (MapGet(m, "telegram") = None /\ HoldsString(m, "fee", Fee200))
                      => ret = Some(Dec(200, 2))
               /\ m = <<>> => ret = None

\* handle alice, introductions {"alice": "1.50", "fee": "2.00"}: the fee is 2.00
C8_Witness ==
    /\ call = "introductions_telegram_fee"
    /\ telegram(rec) = Some(Alice)
    /\ IsSome(introductions(rec))
    /\ HoldsString(Unwrap(introductions(rec)), "alice", Fee150)
    /\ HoldsString(Unwrap(introductions(rec)), "fee", Fee200)
    /\ ret = Some(Dec(200, 2))

\* C10: the fall back to "fee" is decided by the presence of the specific
\* key alone: a "telegram" entry that is no string, or no decimal, gives no
\* fee even beside a well-formed "fee"; and without "introductions", or
\* with one that is no object, there is no fee.  The accessor never fails.
C10_FallbackByPresence ==
    call = "introductions_telegram_fee"
        => /\ (\A i \in 1..Len(doc) :
                 (/\ doc[i][1] = "introductions"
                  /\ doc[i][2].t = "object"
                  /\ HoldsNoDecimal(doc[i][2].v, "telegram")) => ret = None)
           /\ (\A i \in 1..Len(doc) :
                 (doc[i][1] = "introductions" /\ doc[i][2].t # "object") => ret = None)
           /\ "introductions" \notin Keys(doc) => ret = None
           /\ ret = None \/ (IsSome(ret) /\ Unwrap(ret).mantissa \in Nat)

\* a "telegram" entry that is a number beside "fee": "2.00" gives no fee
C10_Witness ==
    /\ call = "introductions_telegram_fee"
    /\ IsSome(introductions(rec))
    /\ IsSome(MapGet(Unwrap(introductions(rec)), "telegram"))
    /\ Unwrap(MapGet(Unwrap(introductions(rec)), "telegram")).t = "number"
    /\ HoldsString(Unwrap(introductions(rec)), "fee", Fee200)
    /\ ret = None

(***************************************************************************)
(* The claims about BitnameInfo, under SpecInfo                            *)
(***************************************************************************)
\* the envelope holds, under a field, one of the given strings
HoldsOneOf(field, strings) ==
    /\ IsSome(field)
    /\ Unwrap(field).t = "string"
    /\ Unwrap(field).v \in strings

AnyMalformed(env) ==
    \/ HoldsOneOf(env.commitment, MalformedCommitments)
    \/ HoldsOneOf(env.ip4_addr, MalformedIp4)
    \/ HoldsOneOf(env.ip6_addr, MalformedIp6)

\* C7: ip_addr prefers IPv6: it returns the IPv6 address whenever there is
\* one, the IPv4 address when there is only that, and nothing when there is
\* neither; never the IPv4 address beside an IPv6 address.
C7_PrefersIpv6 ==
    icall = "ip_addr"
        => LET self == Unwrap(info).val
           IN  /\ IsSome(self.ip6_addr) =>
                     /\ iret = Some(V6(Unwrap(self.ip6_addr)))
                     /\ Unwrap(iret).family # "V4"
               /\ (~IsSome(self.ip6_addr) /\ IsSome(self.ip4_addr)) =>
                     iret = Some(V4(Unwrap(self.ip4_addr)))
               /\ (~IsSome(self.ip6_addr) /\ ~IsSome(self.ip4_addr)) => iret = None

\* both addresses decoded, and the IPv6 address returned
C7_Witness ==
    /\ icall = "ip_addr"
    /\ IsSome(Unwrap(info).val.ip4_addr)
    /\ IsSome(Unwrap(info).val.ip6_addr)
    /\ IsSome(iret)
    /\ Unwrap(iret).family = "V6"

\* C9: decoding the descriptor is all or nothing: one malformed field
\* (a commitment that is not 32 bytes of hex, an invalid address) fails the
\* whole decode, whatever the other fields hold; a field that is missing
\* decodes to None and fails nothing, and a well-formed one to Some.
C9_AllOrNothing ==
    IsSome(info)
        => LET r == Unwrap(info)
           IN  /\ AnyMalformed(envelope) => ~r.ok
               /\ ~AnyMalformed(envelope) =>
                     /\ r.ok
                     /\ envelope.commitment = None => r.val.commitment = None
                     /\ envelope.ip4_addr = None => r.val.ip4_addr = None
                     /\ envelope.ip6_addr = None => r.val.ip6_addr = None
                     /\ HoldsOneOf(envelope.commitment, WellFormedCommitments)
                            => /\ IsSome(r.val.commitment)
                               /\ Len(Unwrap(r.val.commitment)) = COMMITMENT_LEN
                     /\ HoldsOneOf(envelope.ip4_addr, WellFormedIp4)
                            => IsSome(r.val.ip4_addr)
                     /\ HoldsOneOf(envelope.ip6_addr, WellFormedIp6)
                            => IsSome(r.val.ip6_addr)

\* a well-formed commitment and IPv6 address beside the IPv4 address
\* 999.1.1.1: no descriptor
C9_Witness ==
    /\ IsSome(info)
    /\ ~Unwrap(info).ok
    /\ HoldsOneOf(envelope.commitment, WellFormedCommitments)
    /\ HoldsOneOf(envelope.ip4_addr, {<<"9", "9", "9", ".", "1", ".", "1", ".", "1">>})
    /\ HoldsOneOf(envelope.ip6_addr, WellFormedIp6)

====
